---------------------------- MODULE Spec2Model ----------------------------
(***************************************************************************)
(* KitchenComplianceProcessor (src/processors/kitchen_compliance_monitor.py)*)
(* as a state machine: the worker thread's run() loop, the concurrent       *)
(* get_frame() callers, stop()/shutdown(), the per-person cooldown map, the *)
(* nearest-centroid phone tracker and the alert pipeline.                   *)
(*                                                                         *)
(* The worker is cut into steps at the points where another thread can      *)
(* interleave (the lock) and where a collaborator is called (one            *)
(* _trigger_alert per step); everything between two such points is one      *)
(* action.                                                                  *)
(***************************************************************************)
EXTENDS Integers, Sequences, FiniteSets, TLC

VARIABLES
    source,                   \* what rtsp_url / the environment is: see Sources
    error_message,            \* self.error_message: "None" or "Model Error"
    is_running,               \* self.is_running
    latest_frame,             \* self.latest_frame: "None" or <<feed, n>>
    locked,                   \* self.lock is held
    pc,                       \* where the worker thread is in run()
    raised,                   \* the exception that left run(), "none" if none
    is_file,                  \* run(): is_file
    frame_counter,            \* run(): frame_counter of the placeholder loop
    frame_count,              \* run(): frame_count of the main loop
    phone_persistence_frames, \* run(): int(PHONE_PERSISTENCE_SECONDS * video_fps)
    clock,                    \* the wall clock time.time() reads
    current_time,             \* run(): current_time of the cycle in progress
    person_violation_tracker, \* self.person_violation_tracker[id][kind]
    phone_tracker,            \* self.phone_tracker, in dict (insertion) order
    last_apron_cap_results,   \* self.last_apron_cap_results: classes of the boxes
    last_gloves_results,      \* self.last_gloves_results: [cls, box] of the boxes
    person_results,           \* run(): tracked persons of the cycle in progress
    current_phones,           \* run(): phone boxes of the cycle in progress
    todo,                     \* the alerts-to-consider the cycle has not reached yet
    reconnects,               \* how many times the capture was released and reopened
    rewinds,                  \* how many times the file was sought back to frame 0
    last_alert,               \* per (id, kind): time of the last _trigger_alert, -1 if none
    phone_alerts,             \* per phone track id: _trigger_alert("Mobile-Phone") calls
    calls,                    \* collaborator calls of the cycle's latest alert step, in order
    media_path,               \* _trigger_alert: whether the evidence sink returned a path
    cycle_fail,               \* the detector that raised in the last cycle, "none" if none
    sampled,                  \* the apron/cap and glove detectors were called in the last cycle
    cycle_alerts,             \* the [id, kind] _trigger_alert was called for in the cycle, in order
    rpc,                      \* per get_frame caller: "idle" or "locked"
    returned                  \* per get_frame caller: what its last call returned

vars == <<source, error_message, is_running, latest_frame, locked, pc, raised,
          is_file, frame_counter, frame_count, phone_persistence_frames, clock,
          current_time, person_violation_tracker, phone_tracker,
          last_apron_cap_results, last_gloves_results, person_results,
          current_phones, todo,
          reconnects, rewinds, last_alert, phone_alerts, calls, media_path,
          cycle_fail, sampled, cycle_alerts, rpc, returned>>

workerVars_ == <<source, error_message, is_running, latest_frame, pc, raised,
          is_file, frame_counter, frame_count, phone_persistence_frames, clock,
          current_time, person_violation_tracker, phone_tracker,
          last_apron_cap_results, last_gloves_results, person_results,
          current_phones, todo,
          reconnects, rewinds, last_alert, phone_alerts, calls, media_path,
          cycle_fail, sampled, cycle_alerts>>

-----------------------------------------------------------------------------
(* Program constants *)

FRAME_SKIP_RATE == 5

PHONE_PERSISTENCE_SECONDS == 3

ALERT_COOLDOWN_SECONDS == 60

PHONE_MATCH_DISTANCE == 50

RECONNECT_SLEEP_SECONDS == 5

DEFAULT_FPS == 30

(* Bounds of the model *)

MaxFrames == 7          \* successfully read frames (and placeholder frames)

MaxReadFailures == 3    \* failed reads (reconnects plus rewinds)

NumReaders == 2         \* concurrent get_frame callers

NumPersonIds == 2       \* person track ids the tracker hands out

StartTime == 1000       \* time.time() at construction (seconds since the epoch)

-----------------------------------------------------------------------------
(* Vocabulary *)

PersonIds == 1..NumPersonIds

Readers == 1..NumReaders

PersonKinds == {"Without-apron", "Without-cap", "No-Gloves", "Uniform-Violation"}

ApronCapViolations == {"Without-apron", "Without-cap"}

\* rtsp_url and environment: a live stream that opens, a file that opens, a
\* stream that does not open, USE_PLACEHOLDER_FEED=true.
Sources == {"live", "file", "unopenable", "placeholder_env"}

Detectors == {"person", "phone", "apron_cap", "gloves"}

Max(a, b) == IF a >= b THEN a ELSE b

SeqToSet(s) == {s[i] : i \in 1..Len(s)}

-----------------------------------------------------------------------------
(* ViolationTracker: the cooldown test of run(), lines 327, 335 and 358.    *)
(* person_violation_tracker is a defaultdict of defaultdict(float): an      *)
(* entry never written reads 0.0.                                           *)

EmptyTracker == [i \in PersonIds |-> [k \in PersonKinds |-> 0]]

\* CooldownElapsed with the boundary second counted as elapsed
CooldownElapsedInclusive(tracker, id, kind, now) ==
    now - tracker[id][kind] >= ALERT_COOLDOWN_SECONDS

CooldownElapsed(tracker, id, kind, now) ==
    now - tracker[id][kind] > ALERT_COOLDOWN_SECONDS

\* RecordAlert that leaves the timestamp as it was
RecordAlertNowhere(tracker, id, kind, now) == tracker

\* lines 328, 336, 359
RecordAlert(tracker, id, kind, now) ==
    [tracker EXCEPT ![id][kind] = now]

-----------------------------------------------------------------------------
(* Rule evaluation per tracked person, run() lines 317-361, as the list of  *)
(* violations the cycle observes, in the order the code reaches them.  A    *)
(* person is [id, box, compliant]: the track id, the box <<x1, y1, x2, y2>>  *)
(* and the number of torso-crop pixels inside the yellow or black band.     *)
(* The detectors give box corners as floats: person and glove boxes are in  *)
(* half pixels, so that the int() of line 320 has something to truncate.    *)

\* line 320: px1, py1, px2, py2 = map(int, person_box), in whole pixels
IntBox(box) == [i \in 1..4 |-> box[i] \div 2]

\* line 317: the boxes of class 'surgical-gloves' among the glove results
DetectedGlovesBoxes(gloves) ==
    LET keep(g) == g.cls = "surgical-gloves"
        kept == SelectSeq(gloves, keep)
    IN  [i \in 1..Len(kept) |-> kept[i].box]

\* HasGloves with a glove box on the person box's edge counted as inside
HasGlovesTouching(pbox, gboxes) ==
    \E i \in 1..Len(gboxes) :
        /\ gboxes[i][1] >= 2 * pbox[1]
        /\ gboxes[i][3] <= 2 * pbox[3]
        /\ gboxes[i][2] >= 2 * pbox[2]
        /\ gboxes[i][4] <= 2 * pbox[4]

\* line 333: any glove box (floats, here half pixels) with all four edges
\* strictly inside the truncated person box pbox (whole pixels)
HasGloves(pbox, gboxes) ==
    \E i \in 1..Len(gboxes) :
        /\ gboxes[i][1] > 2 * pbox[1]
        /\ gboxes[i][3] < 2 * pbox[3]
        /\ gboxes[i][2] > 2 * pbox[2]
        /\ gboxes[i][4] < 2 * pbox[4]

\* line 341: rows py1 + int(h * 0.1) .. py1 + int(h * 0.7), columns px1 .. px2.
\* In floating point int(h * 0.7) is one less than 7h/10 for some h that are
\* multiples of 10, the least being 90; the heights used here are below that.
TorsoRows(pbox) ==
    LET h == pbox[4] - pbox[2]
    IN  Max(0, ((h * 7) \div 10) - (h \div 10))

TorsoCols(pbox) == Max(0, pbox[3] - pbox[1])

\* line 354
TotalPixels(pbox) == TorsoRows(pbox) * TorsoCols(pbox)

\* UniformViolation with a ratio of exactly 0.30 counted as a violation
UniformViolationInclusive(p) ==
    /\ TotalPixels(IntBox(p.box)) > 0
    /\ p.compliant * 100 <= 30 * TotalPixels(IntBox(p.box))

\* lines 342-357: torso_crop.size > 0 and compliant_ratio < 0.30
UniformViolation(p) ==
    /\ TotalPixels(IntBox(p.box)) > 0
    /\ p.compliant * 100 < 30 * TotalPixels(IntBox(p.box))

\* lines 323-326: one entry per box of a 'Without-...' class, in box order
ApronCapItems(id, apron) ==
    LET bad(c) == c \in ApronCapViolations
        kept == SelectSeq(apron, bad)
    IN  [i \in 1..Len(kept) |-> [id |-> id, kind |-> kept[i]]]

\* lines 320-361 for one person
PersonItems(p, apron, gloves) ==
    ApronCapItems(p.id, apron)
    \o (IF HasGloves(IntBox(p.box), DetectedGlovesBoxes(gloves))
        THEN <<>> ELSE <<[id |-> p.id, kind |-> "No-Gloves"]>>)
    \o (IF UniformViolation(p)
        THEN <<[id |-> p.id, kind |-> "Uniform-Violation"]>> ELSE <<>>)

\* lines 313-361: for person_box, track_id in zip(person_boxes, track_ids)
RECURSIVE RuleItems(_, _, _)
RuleItems(persons, apron, gloves) ==
    IF persons = <<>> THEN <<>>
    ELSE PersonItems(Head(persons), apron, gloves)
         \o RuleItems(Tail(persons), apron, gloves)

-----------------------------------------------------------------------------
(* PhoneTracker: run() lines 364-386.  self.phone_tracker is a dict; it is  *)
(* modelled as the sequence of its entries in insertion order, which is the *)
(* order line 370 iterates in.  A track is [id, frames, center, alerted];   *)
(* 'box' is stored by the code and never read.  fired is history: how often *)
(* the persistence alert was triggered for this track since it was created. *)

\* line 368: int((x1 + x2) / 2), int((y1 + y2) / 2)
Center(box) == <<(box[1] + box[3]) \div 2, (box[2] + box[4]) \div 2>>

\* line 371, squared: np.sqrt(d) < 50 iff d < 50 * 50 for an integer d
DistSq(a, b) == (a[1] - b[1]) * (a[1] - b[1]) + (a[2] - b[2]) * (a[2] - b[2])

\* WithinMatchDistance with the boundary distance counted as a match
WithinMatchDistanceInclusive(a, b) ==
    DistSq(a, b) <= PHONE_MATCH_DISTANCE * PHONE_MATCH_DISTANCE

WithinMatchDistance(a, b) ==
    DistSq(a, b) < PHONE_MATCH_DISTANCE * PHONE_MATCH_DISTANCE

\* lines 370-375: the first track, in dict order, within the distance; 0 if none
FirstMatch(tracker, c) ==
    LET hits == {i \in 1..Len(tracker) : WithinMatchDistance(c, tracker[i].center)}
    IN  IF hits = {} THEN 0 ELSE CHOOSE i \in hits : \A j \in hits : i <= j

\* max(self.phone_tracker.keys(), default=0)
MaxKey(tracker) ==
    IF tracker = <<>> THEN 0
    ELSE CHOOSE m \in {tracker[i].id : i \in 1..Len(tracker)} :
             \A i \in 1..Len(tracker) : tracker[i].id <= m

\* line 377
NewPhoneId(tracker) == MaxKey(tracker) + 1

\* d[key] = value on a dict: an existing key keeps its place
DictSet(d, rec) ==
    LET at == {i \in 1..Len(d) : d[i].id = rec.id}
    IN  IF at = {} THEN Append(d, rec)
        ELSE [i \in 1..Len(d) |-> IF i \in at THEN rec ELSE d[i]]

\* MergedTrack without carrying alerted forward
MergedTrackForgetful(old, c) ==
    [id |-> old.id, frames |-> old.frames + 1, center |-> c,
     alerted |-> FALSE, fired |-> old.fired]

\* line 373
MergedTrack(old, c) ==
    [id |-> old.id, frames |-> old.frames + 1, center |-> c,
     alerted |-> old.alerted, fired |-> old.fired]

\* line 378
NewTrack(id, c) ==
    [id |-> id, frames |-> 1, center |-> c, alerted |-> FALSE, fired |-> 0]

\* lines 367-378 for one phone_box
TrackOne(old, new, box) ==
    LET c == Center(box)
        i == FirstMatch(old, c)
    IN  IF i > 0 THEN DictSet(new, MergedTrack(old[i], c))
        ELSE DictSet(new, NewTrack(NewPhoneId(old), c))

\* lines 365-380: new_phone_tracker after all of current_phones
RECURSIVE Rebuild(_, _, _)
Rebuild(old, new, phones) ==
    IF phones = <<>> THEN new
    ELSE Rebuild(old, TrackOne(old, new, Head(phones)), Tail(phones))

\* line 383
PersistenceReached(t, threshold) == t.frames > threshold /\ ~t.alerted

\* lines 382-383: the tracks the alert loop will alert for, in dict order
PhoneItems(tracker, threshold) ==
    LET due(t) == PersistenceReached(t, threshold)
        kept == SelectSeq(tracker, due)
    IN  [i \in 1..Len(kept) |-> [id |-> kept[i].id, kind |-> "Mobile-Phone"]]

\* line 384, and the history of the alert
MarkAlerted(tracker, id) ==
    [i \in 1..Len(tracker) |->
        IF tracker[i].id = id
        THEN [tracker[i] EXCEPT !.alerted = TRUE, !.fired = @ + 1]
        ELSE tracker[i]]

\* lines 259-260: video_fps = cap.get(CAP_PROP_FPS) or 30, in half frames per
\* second so that int() has something to truncate
PersistenceFrames(fps2) ==
    IF fps2 = 0 THEN PHONE_PERSISTENCE_SECONDS * DEFAULT_FPS
    ELSE (PHONE_PERSISTENCE_SECONDS * fps2) \div 2

-----------------------------------------------------------------------------
(* AlertPipeline: _trigger_alert and _save_violation_to_db, as the calls    *)
(* they make on the collaborators, in order, for each outcome the           *)
(* collaborators can give:                                                  *)
(*   no_path        handle_main_detection returns no path                   *)
(*   saved          a path, and the record is committed                     *)
(*   write_error    a path, db.add or db.commit raises                      *)
(*   session_error  a path, self.SessionLocal() raises                      *)

AlertOutcomes == {"no_path", "saved", "write_error", "session_error"}

\* lines 142-153
SaveViolationCalls(outcome) ==
    CASE outcome = "session_error" -> <<"SessionLocal">>
      [] outcome = "write_error"   -> <<"SessionLocal", "add_commit", "rollback">>
      [] OTHER                     -> <<"SessionLocal", "add_commit">>

\* lines 143 and 151: what _save_violation_to_db lets out
SaveViolationRaises(outcome) ==
    IF outcome = "session_error" THEN "db_session" ELSE "none"

\* TriggerAlertCalls without the test of media_path
TriggerAlertCallsAlwaysSave(outcome) ==
    <<"notify", "persist">> \o SaveViolationCalls(outcome)

\* lines 214-222
TriggerAlertCalls(outcome) ==
    <<"notify", "persist">>
    \o (IF outcome # "no_path" THEN SaveViolationCalls(outcome) ELSE <<>>)

TriggerAlertRaises(outcome) ==
    IF outcome # "no_path" THEN SaveViolationRaises(outcome) ELSE "none"

-----------------------------------------------------------------------------
(* get_frame, lines 125-140, once the lock is held; encoded is the success  *)
(* flag of cv2.imencode on the latest frame.                                *)

GetFrameResult(err, frame, encoded) ==
    IF err # "None" THEN "error_placeholder"
    ELSE IF frame # "None"
         THEN (IF encoded THEN "jpeg" ELSE "empty")
         ELSE "connecting_placeholder"

-----------------------------------------------------------------------------
(* Construction: __init__, lines 50-108.  Model loading either leaves       *)
(* error_message None or sets it; the thread is not started yet.            *)

InitWith(sources, errors) ==
    /\ source \in sources
    /\ error_message \in errors
    /\ is_running = TRUE
    /\ latest_frame = "None"
    /\ locked = FALSE
    /\ pc = "start"
    /\ raised = "none"
    /\ is_file = FALSE
    /\ frame_counter = 0
    /\ frame_count = 0
    /\ phone_persistence_frames = 0
    /\ clock = StartTime
    /\ current_time = 0
    /\ person_violation_tracker = EmptyTracker
    /\ phone_tracker = <<>>
    /\ last_apron_cap_results = <<>>
    /\ last_gloves_results = <<>>
    /\ person_results = <<>>
    /\ current_phones = <<>>
    /\ todo = <<>>
    /\ reconnects = 0
    /\ rewinds = 0
    /\ last_alert = [i \in PersonIds |-> [k \in PersonKinds |-> -1]]
    /\ phone_alerts = [i \in 1..MaxFrames |-> 0]
    /\ calls = <<>>
    /\ media_path = FALSE
    /\ cycle_fail = "none"
    /\ sampled = FALSE
    /\ cycle_alerts = <<>>
    /\ rpc = [r \in Readers |-> "idle"]
    /\ returned = [r \in Readers |-> "none"]

-----------------------------------------------------------------------------
(* The worker thread: run(), lines 224-388 *)

\* Run without the test of error_message
RunIgnoringError(fpsIn) ==
    /\ pc = "start"
    /\ IF source \in {"placeholder_env", "unopenable"}
       THEN /\ pc' = "ph_top"
            /\ UNCHANGED <<is_file, phone_persistence_frames>>
       ELSE /\ pc' = "top"
            /\ is_file' = (source = "file")
            /\ \E fps2 \in fpsIn :
                   phone_persistence_frames' = PersistenceFrames(fps2)
    /\ UNCHANGED <<source, error_message, is_running, latest_frame, locked, raised,
                   frame_counter, frame_count, clock, current_time,
                   person_violation_tracker, phone_tracker, last_apron_cap_results,
                   last_gloves_results, person_results, current_phones, todo,
                   reconnects, rewinds, last_alert, phone_alerts, calls, media_path,
                   cycle_fail, sampled, cycle_alerts, rpc, returned>>

\* lines 225-260: up to the first loop test
Run(fpsIn) ==
    /\ pc = "start"
    /\ IF error_message # "None"
       THEN /\ pc' = "returned"
            /\ UNCHANGED <<is_file, phone_persistence_frames>>
       ELSE IF source \in {"placeholder_env", "unopenable"}
       THEN /\ pc' = "ph_top"
            /\ UNCHANGED <<is_file, phone_persistence_frames>>
       ELSE /\ pc' = "top"
            /\ is_file' = (source = "file")
            /\ \E fps2 \in fpsIn :
                   phone_persistence_frames' = PersistenceFrames(fps2)
    /\ UNCHANGED <<source, error_message, is_running, latest_frame, locked, raised,
                   frame_counter, frame_count, clock, current_time,
                   person_violation_tracker, phone_tracker, last_apron_cap_results,
                   last_gloves_results, person_results, current_phones, todo,
                   reconnects, rewinds, last_alert, phone_alerts, calls, media_path, cycle_fail,
                   sampled, cycle_alerts, rpc, returned>>

\* line 245: while self.is_running, and lines 246-249 or the return of line 255
PlaceholderTop ==
    /\ pc = "ph_top"
    /\ IF is_running
       THEN frame_counter < MaxFrames /\ pc' = "ph_lock"
       ELSE pc' = "returned"
    /\ UNCHANGED <<source, error_message, is_running, latest_frame, locked, raised,
                   is_file, frame_counter, frame_count, phone_persistence_frames,
                   clock, current_time, person_violation_tracker, phone_tracker,
                   last_apron_cap_results, last_gloves_results, person_results,
                   current_phones, todo, reconnects, rewinds, last_alert,
                   phone_alerts, calls, media_path, cycle_fail,
                   sampled, cycle_alerts, rpc, returned>>

\* line 251: with self.lock
PlaceholderAcquire ==
    /\ pc = "ph_lock"
    /\ ~locked
    /\ locked' = TRUE
    /\ pc' = "ph_write"
    /\ UNCHANGED <<source, error_message, is_running, latest_frame, raised,
                   is_file, frame_counter, frame_count, phone_persistence_frames,
                   clock, current_time, person_violation_tracker, phone_tracker,
                   last_apron_cap_results, last_gloves_results, person_results,
                   current_phones, todo, reconnects, rewinds, last_alert,
                   phone_alerts, calls, media_path, cycle_fail,
                   sampled, cycle_alerts, rpc, returned>>

\* lines 252-254
PlaceholderWrite ==
    /\ pc = "ph_write"
    /\ latest_frame' = <<"placeholder", frame_counter>>
    /\ locked' = FALSE
    /\ frame_counter' = frame_counter + 1
    /\ pc' = "ph_top"
    /\ UNCHANGED <<source, error_message, is_running, raised,
                   is_file, frame_count, phone_persistence_frames,
                   clock, current_time, person_violation_tracker, phone_tracker,
                   last_apron_cap_results, last_gloves_results, person_results,
                   current_phones, todo, reconnects, rewinds, last_alert,
                   phone_alerts, calls, media_path, cycle_fail,
                   sampled, cycle_alerts, rpc, returned>>

\* line 263 false, line 388
LoopExit ==
    /\ pc = "top"
    /\ ~is_running
    /\ pc' = "returned"
    /\ UNCHANGED <<source, error_message, is_running, latest_frame, locked, raised,
                   is_file, frame_counter, frame_count, phone_persistence_frames,
                   clock, current_time, person_violation_tracker, phone_tracker,
                   last_apron_cap_results, last_gloves_results, person_results,
                   current_phones, todo, reconnects, rewinds, last_alert,
                   phone_alerts, calls, media_path, cycle_fail,
                   sampled, cycle_alerts, rpc, returned>>

\* Rewind that starts the cycle counter over with the file
RewindRestarting ==
    /\ pc = "top"
    /\ is_running
    /\ is_file
    /\ reconnects + rewinds < MaxReadFailures
    /\ rewinds' = rewinds + 1
    /\ frame_count' = 0
    /\ pc' = "top"
    /\ UNCHANGED <<source, error_message, is_running, latest_frame, locked, raised,
                   is_file, frame_counter, phone_persistence_frames,
                   clock, current_time, person_violation_tracker, phone_tracker,
                   last_apron_cap_results, last_gloves_results, person_results,
                   current_phones, todo, reconnects, last_alert,
                   phone_alerts, calls, media_path, cycle_fail,
                   sampled, cycle_alerts, rpc, returned>>

\* lines 263-269: the read fails on a file: seek to frame 0 and continue
Rewind ==
    /\ pc = "top"
    /\ is_running
    /\ is_file
    /\ reconnects + rewinds < MaxReadFailures
    /\ rewinds' = rewinds + 1
    /\ pc' = "top"
    /\ UNCHANGED <<source, error_message, is_running, latest_frame, locked, raised,
                   is_file, frame_counter, frame_count, phone_persistence_frames,
                   clock, current_time, person_violation_tracker, phone_tracker,
                   last_apron_cap_results, last_gloves_results, person_results,
                   current_phones, todo, reconnects, last_alert,
                   phone_alerts, calls, media_path, cycle_fail,
                   sampled, cycle_alerts, rpc, returned>>

\* Reconnect that gives up after the second failure
ReconnectGivingUp ==
    /\ pc = "top"
    /\ is_running
    /\ ~is_file
    /\ reconnects + rewinds < MaxReadFailures
    /\ clock' = clock + RECONNECT_SLEEP_SECONDS
    /\ reconnects' = reconnects + 1
    /\ pc' = IF reconnects >= 2 THEN "returned" ELSE "top"
    /\ UNCHANGED <<source, error_message, is_running, latest_frame, locked, raised,
                   is_file, frame_counter, frame_count, phone_persistence_frames,
                   current_time, person_violation_tracker, phone_tracker,
                   last_apron_cap_results, last_gloves_results, person_results,
                   current_phones, todo, rewinds, last_alert,
                   phone_alerts, calls, media_path, cycle_fail,
                   sampled, cycle_alerts, rpc, returned>>

\* Reconnect that starts the reopened stream with empty detector results
ReconnectFlushing ==
    /\ pc = "top"
    /\ is_running
    /\ ~is_file
    /\ reconnects + rewinds < MaxReadFailures
    /\ clock' = clock + RECONNECT_SLEEP_SECONDS
    /\ reconnects' = reconnects + 1
    /\ last_apron_cap_results' = <<>>
    /\ last_gloves_results' = <<>>
    /\ pc' = "top"
    /\ UNCHANGED <<source, error_message, is_running, latest_frame, locked, raised,
                   is_file, frame_counter, frame_count, phone_persistence_frames,
                   current_time, person_violation_tracker, phone_tracker,
                   person_results, current_phones, todo, rewinds, last_alert,
                   phone_alerts, calls, media_path, cycle_fail,
                   sampled, cycle_alerts, rpc, returned>>

\* Reconnect that retries without looking at is_running
ReconnectUnstoppable ==
    /\ pc = "top"
    /\ ~is_file
    /\ reconnects + rewinds < MaxReadFailures
    /\ clock' = clock + RECONNECT_SLEEP_SECONDS
    /\ reconnects' = reconnects + 1
    /\ pc' = "top"
    /\ UNCHANGED <<source, error_message, is_running, latest_frame, locked, raised,
                   is_file, frame_counter, frame_count, phone_persistence_frames,
                   current_time, person_violation_tracker, phone_tracker,
                   last_apron_cap_results, last_gloves_results, person_results,
                   current_phones, todo, rewinds, last_alert,
                   phone_alerts, calls, media_path, cycle_fail,
                   sampled, cycle_alerts, rpc, returned>>

\* lines 263-265, 270-275: the read fails on a live stream: sleep, release,
\* reopen and continue
Reconnect ==
    /\ pc = "top"
    /\ is_running
    /\ ~is_file
    /\ reconnects + rewinds < MaxReadFailures
    /\ clock' = clock + RECONNECT_SLEEP_SECONDS
    /\ reconnects' = reconnects + 1
    /\ pc' = "top"
    /\ UNCHANGED <<source, error_message, is_running, latest_frame, locked, raised,
                   is_file, frame_counter, frame_count, phone_persistence_frames,
                   current_time, person_violation_tracker, phone_tracker,
                   last_apron_cap_results, last_gloves_results, person_results,
                   current_phones, todo, rewinds, last_alert,
                   phone_alerts, calls, media_path, cycle_fail,
                   sampled, cycle_alerts, rpc, returned>>

\* DetectorsDue on the first frame of every five instead of the fifth
DetectorsDueFirst(n) == n % FRAME_SKIP_RATE = 1

\* line 295
DetectorsDue(n) == n % FRAME_SKIP_RATE = 0

\* lines 263-264, 277-306: the read succeeds and every detector returns.  The
\* violations of lines 313-361 depend only on what is known here; they are
\* listed now and considered one per step after the frame is published.
ReadOK(personIn, phoneIn, apronIn, gloveIn, ticks) ==
    /\ pc = "top"
    /\ is_running
    /\ frame_count < MaxFrames
    /\ \E persons \in personIn, phones \in phoneIn, apron \in apronIn,
          gloves \in gloveIn, tick \in ticks :
        LET n == frame_count + 1
            apron2 == IF DetectorsDue(n) THEN apron ELSE last_apron_cap_results
            gloves2 == IF DetectorsDue(n) THEN gloves ELSE last_gloves_results
        IN  /\ frame_count' = n
            /\ clock' = clock + tick
            /\ current_time' = clock + tick
            /\ person_results' = persons
            /\ current_phones' = phones
            /\ last_apron_cap_results' = apron2
            /\ last_gloves_results' = gloves2
            /\ todo' = RuleItems(persons, apron2, gloves2)
            /\ sampled' = DetectorsDue(n)
    /\ cycle_alerts' = <<>>
    /\ calls' = <<>>
    /\ media_path' = FALSE
    /\ cycle_fail' = "none"
    /\ pc' = "publish"
    /\ UNCHANGED <<source, error_message, is_running, latest_frame, locked, raised,
                   is_file, frame_counter, phone_persistence_frames,
                   person_violation_tracker, phone_tracker, reconnects, rewinds,
                   last_alert, phone_alerts, rpc, returned>>

\* lines 263-264, 277-303 when a detector call raises: nothing in run()
\* catches it, so it leaves run() and the thread ends.  The glove detector is
\* called after the apron/cap results were stored.
DetectorError(failIn, apronIn, ticks) ==
    /\ pc = "top"
    /\ is_running
    /\ frame_count < MaxFrames
    /\ \E fail \in failIn, apron \in apronIn, tick \in ticks :
        LET n == frame_count + 1
        IN  /\ fail \in {"apron_cap", "gloves"} => DetectorsDue(n)
            /\ frame_count' = n
            /\ clock' = clock + tick
            /\ current_time' = clock + tick
            /\ last_apron_cap_results' =
                   IF fail = "gloves" THEN apron ELSE last_apron_cap_results
            /\ cycle_fail' = fail
            /\ raised' = fail
            /\ sampled' = (fail \in {"apron_cap", "gloves"})
    /\ cycle_alerts' = <<>>
    /\ calls' = <<>>
    /\ media_path' = FALSE
    /\ pc' = "crashed"
    /\ UNCHANGED <<source, error_message, is_running, latest_frame, locked,
                   is_file, frame_counter, phone_persistence_frames,
                   person_violation_tracker, phone_tracker, last_gloves_results,
                   person_results, current_phones, todo, reconnects, rewinds,
                   last_alert, phone_alerts, rpc, returned>>

\* line 309: with self.lock
PublishAcquire ==
    /\ pc = "publish"
    /\ ~locked
    /\ locked' = TRUE
    /\ pc' = "write"
    /\ UNCHANGED <<source, error_message, is_running, latest_frame, raised,
                   is_file, frame_counter, frame_count, phone_persistence_frames,
                   clock, current_time, person_violation_tracker, phone_tracker,
                   last_apron_cap_results, last_gloves_results, person_results,
                   current_phones, todo, reconnects, rewinds, last_alert,
                   phone_alerts, calls, media_path, cycle_fail,
                   sampled, cycle_alerts, rpc, returned>>

\* line 310
PublishWrite ==
    /\ pc = "write"
    /\ latest_frame' = <<"stream", frame_count>>
    /\ locked' = FALSE
    /\ pc' = "rules"
    /\ UNCHANGED <<source, error_message, is_running, raised,
                   is_file, frame_counter, frame_count, phone_persistence_frames,
                   clock, current_time, person_violation_tracker, phone_tracker,
                   last_apron_cap_results, last_gloves_results, person_results,
                   current_phones, todo, reconnects, rewinds, last_alert,
                   phone_alerts, calls, media_path, cycle_fail,
                   sampled, cycle_alerts, rpc, returned>>

\* lines 327-330, 335-338, 358-361 for the next violation of the cycle: the
\* cooldown test, the timestamp, then _trigger_alert
PersonAlertStep(outcomeIn) ==
    /\ pc = "rules"
    /\ todo # <<>>
    /\ LET h == Head(todo)
       IN  IF CooldownElapsed(person_violation_tracker, h.id, h.kind, current_time)
           THEN /\ person_violation_tracker' =
                       RecordAlert(person_violation_tracker, h.id, h.kind, current_time)
                /\ last_alert' = [last_alert EXCEPT ![h.id][h.kind] = current_time]
                /\ cycle_alerts' = Append(cycle_alerts, h)
                /\ \E o \in outcomeIn :
                       /\ calls' = TriggerAlertCalls(o)
                       /\ media_path' = (o # "no_path")
                       /\ raised' = TriggerAlertRaises(o)
                       /\ pc' = IF TriggerAlertRaises(o) = "none"
                                THEN "rules" ELSE "crashed"
           ELSE /\ calls' = <<>>
                /\ media_path' = FALSE
                /\ UNCHANGED <<person_violation_tracker, last_alert, cycle_alerts,
                               raised, pc>>
    /\ todo' = Tail(todo)
    /\ UNCHANGED <<source, error_message, is_running, latest_frame, locked,
                   is_file, frame_counter, frame_count, phone_persistence_frames,
                   clock, current_time, phone_tracker,
                   last_apron_cap_results, last_gloves_results, person_results,
                   current_phones, reconnects, rewinds,
                   phone_alerts, cycle_fail, sampled, rpc, returned>>

\* lines 364-380, and which tracks the loop of line 382 will alert for
TrackPhones ==
    /\ pc = "rules"
    /\ todo = <<>>
    /\ phone_tracker' = Rebuild(phone_tracker, <<>>, current_phones)
    /\ todo' = PhoneItems(phone_tracker', phone_persistence_frames)
    /\ pc' = "phones"
    /\ UNCHANGED <<source, error_message, is_running, latest_frame, locked, raised,
                   is_file, frame_counter, frame_count, phone_persistence_frames,
                   clock, current_time, person_violation_tracker,
                   last_apron_cap_results, last_gloves_results, person_results,
                   current_phones, reconnects, rewinds, last_alert,
                   phone_alerts, calls, media_path, cycle_fail,
                   sampled, cycle_alerts, rpc, returned>>

\* lines 383-386 for the next track past the persistence threshold
PhoneAlertStep(outcomeIn) ==
    /\ pc = "phones"
    /\ todo # <<>>
    /\ LET h == Head(todo)
       IN  /\ phone_tracker' = MarkAlerted(phone_tracker, h.id)
           /\ phone_alerts' = [phone_alerts EXCEPT ![h.id] = @ + 1]
           /\ cycle_alerts' = Append(cycle_alerts, h)
    /\ \E o \in outcomeIn :
           /\ calls' = TriggerAlertCalls(o)
           /\ media_path' = (o # "no_path")
           /\ raised' = TriggerAlertRaises(o)
           /\ pc' = IF TriggerAlertRaises(o) = "none" THEN "phones" ELSE "crashed"
    /\ todo' = Tail(todo)
    /\ UNCHANGED <<source, error_message, is_running, latest_frame, locked,
                   is_file, frame_counter, frame_count, phone_persistence_frames,
                   clock, current_time, person_violation_tracker,
                   last_apron_cap_results, last_gloves_results, person_results,
                   current_phones, reconnects, rewinds, last_alert,
                   cycle_fail, sampled, rpc, returned>>

\* line 386 done for every track: back to line 263
CycleEnd ==
    /\ pc = "phones"
    /\ todo = <<>>
    /\ person_results' = <<>>
    /\ current_phones' = <<>>
    /\ pc' = "top"
    /\ UNCHANGED <<source, error_message, is_running, latest_frame, locked, raised,
                   is_file, frame_counter, frame_count, phone_persistence_frames,
                   clock, current_time, person_violation_tracker, phone_tracker,
                   last_apron_cap_results, last_gloves_results, todo,
                   reconnects, rewinds, last_alert,
                   phone_alerts, calls, media_path, cycle_fail,
                   sampled, cycle_alerts, rpc, returned>>

-----------------------------------------------------------------------------
(* The other threads *)

\* lines 118-119
Stop ==
    /\ is_running' = FALSE
    /\ UNCHANGED <<source, error_message, latest_frame, locked, pc, raised,
                   is_file, frame_counter, frame_count, phone_persistence_frames,
                   clock, current_time, person_violation_tracker, phone_tracker,
                   last_apron_cap_results, last_gloves_results, person_results,
                   current_phones, todo, reconnects, rewinds, last_alert,
                   phone_alerts, calls, media_path, cycle_fail,
                   sampled, cycle_alerts, rpc, returned>>

\* GetFrameAcquire that does not wait for the lock
GetFrameAcquireUnlocked(r) ==
    /\ rpc[r] = "idle"
    /\ locked' = TRUE
    /\ rpc' = [rpc EXCEPT ![r] = "locked"]
    /\ UNCHANGED workerVars_
    /\ UNCHANGED returned

\* line 126: with self.lock
GetFrameAcquire(r) ==
    /\ rpc[r] = "idle"
    /\ ~locked
    /\ locked' = TRUE
    /\ rpc' = [rpc EXCEPT ![r] = "locked"]
    /\ UNCHANGED workerVars_
    /\ UNCHANGED returned

\* lines 127-140
GetFrameReturn(r, encodeIn) ==
    /\ rpc[r] = "locked"
    /\ \E encoded \in encodeIn :
           returned' = [returned EXCEPT
                            ![r] = GetFrameResult(error_message, latest_frame, encoded)]
    /\ locked' = FALSE
    /\ rpc' = [rpc EXCEPT ![r] = "idle"]
    /\ UNCHANGED workerVars_

-----------------------------------------------------------------------------
(* What the environment supplies *)

\* x 10.5 .. 20.5, y 10 .. 20, in half pixels: truncated to 10 .. 20, 10 .. 20
PersonBox == <<21, 20, 41, 40>>

\* a person whose torso crop (6 rows of 10 pixels) has c compliant pixels
Person(id, c) == [id |-> id, box |-> PersonBox, compliant |-> c]

\* a person box one pixel high: the torso crop has no rows
FlatPerson(id) == [id |-> id, box |-> <<21, 20, 41, 22>>, compliant |-> 0]

\* x 12 .. 14, y 12 .. 14
GloveInside == [cls |-> "surgical-gloves", box |-> <<24, 24, 28, 28>>]

\* x 10 .. 14: the left edge is on the left edge of the truncated person box
GloveOnEdge == [cls |-> "surgical-gloves", box |-> <<20, 24, 28, 28>>]

\* a box of another class of the glove model, inside the person box
BareHandInside == [cls |-> "no-gloves", box |-> <<24, 24, 28, 28>>]

\* a phone box centred on <<x, y>>
PhoneAt(x, y) == <<x - 4, y - 4, x + 4, y + 4>>

NoPersons == {<<>>}

NoPhones == {<<>>}

NoBoxes == {<<>>}

-----------------------------------------------------------------------------
(* Spec: the worker with any source, with or without a model error, beside  *)
(* concurrent get_frame callers and stop(); one person is in view.          *)

Init == InitWith(Sources, {"None", "Model Error"})

BasePersons == {<<Person(1, 60)>>}

Next ==
    \/ Run({2})
    \/ PlaceholderTop
    \/ PlaceholderAcquire
    \/ PlaceholderWrite
    \/ LoopExit
    \/ Rewind
    \/ Reconnect
    \/ ReadOK(BasePersons, NoPhones, NoBoxes, NoBoxes, {1})
    \/ PublishAcquire
    \/ PublishWrite
    \/ PersonAlertStep({"saved"})
    \/ TrackPhones
    \/ CycleEnd
    \/ Stop
    \/ \E r \in Readers : GetFrameAcquire(r)
    \/ \E r \in Readers : GetFrameReturn(r, BOOLEAN)

Spec == Init /\ [][Next]_vars

-----------------------------------------------------------------------------
(* SpecPipeline: a live stream or a file, with read failures, detector      *)
(* errors, every outcome of the alert collaborators, and stop().            *)

LoopPcs == {"top", "publish", "write", "rules", "phones"}

InitPipeline == InitWith({"live", "file"}, {"None"})

PipelinePersons == {<<>>, <<Person(1, 0)>>}

PipelinePhones == {<<>>, <<PhoneAt(50, 50)>>}

PipelineApron == {<<"Without-apron">>}

NextPipeline ==
    \/ Run({2})
    \/ LoopExit
    \/ Rewind
    \/ Reconnect
    \/ ReadOK(PipelinePersons, PipelinePhones, PipelineApron, NoBoxes, {1})
    \/ DetectorError(Detectors, PipelineApron, {1})
    \/ PublishAcquire
    \/ PublishWrite
    \/ PersonAlertStep(AlertOutcomes)
    \/ TrackPhones
    \/ PhoneAlertStep(AlertOutcomes)
    \/ CycleEnd
    \/ Stop

SpecPipeline == InitPipeline /\ [][NextPipeline]_vars

-----------------------------------------------------------------------------
(* SpecStop: the worker on any source with working models, and stop().  The *)
(* worker is one thread that the scheduler keeps running and whose blocking *)
(* calls (cap.read, time.sleep) return: weak fairness of its next step.     *)
(* No get_frame caller competes for the lock here.                          *)

InitStop == InitWith(Sources, {"None"})

\* what some step of the worker always changes
workerProgress_ == <<pc, todo, reconnects, rewinds>>

WorkerNext ==
    \/ Run({2})
    \/ PlaceholderTop
    \/ PlaceholderAcquire
    \/ PlaceholderWrite
    \/ LoopExit
    \/ Rewind
    \/ Reconnect
    \/ ReadOK(PipelinePersons, PipelinePhones, NoBoxes, NoBoxes, {1})
    \/ PublishAcquire
    \/ PublishWrite
    \/ PersonAlertStep({"saved"})
    \/ TrackPhones
    \/ PhoneAlertStep({"saved"})
    \/ CycleEnd

NextStop == WorkerNext \/ Stop

SpecStop == InitStop /\ [][NextStop]_vars /\ WF_workerProgress_(WorkerNext)

-----------------------------------------------------------------------------
(* SpecRules: a live stream with up to two tracked persons; the clock moves *)
(* by 1 s or 59 s between frames, so that 59, 60 and 61 s after an alert    *)
(* all occur.                                                               *)

InitRules == InitWith({"live"}, {"None"})

RulesPersons == {<<>>, <<Person(1, 0)>>, <<Person(2, 60), Person(1, 0)>>}

RulesApron == {<<>>, <<"Without-apron", "apron", "Without-cap", "Without-apron">>}

RulesGloves == {<<>>, <<GloveInside>>}

RulesTicks == {1, 59}

NextRules ==
    \/ Run({2})
    \/ ReadOK(RulesPersons, NoPhones, RulesApron, RulesGloves, RulesTicks)
    \/ PublishAcquire
    \/ PublishWrite
    \/ PersonAlertStep({"saved"})
    \/ TrackPhones
    \/ CycleEnd

SpecRules == InitRules /\ [][NextRules]_vars

-----------------------------------------------------------------------------
(* SpecGeometry: the glove containment test and the torso colour ratio on   *)
(* boxes at their boundaries; the cycles are more than a cooldown apart, so *)
(* every violation observed is alerted.                                     *)

InitGeometry == InitWith({"live"}, {"None"})

GeometryPersons == {<<>>, <<Person(1, 17)>>, <<Person(2, 18), Person(1, 60)>>,
                    <<FlatPerson(2)>>}

GeometryGloves == {<<>>, <<GloveInside>>, <<GloveOnEdge, BareHandInside>>,
                   <<BareHandInside, GloveInside>>}

GeometryTicks == {61}

NextGeometry ==
    \/ Run({2})
    \/ ReadOK(GeometryPersons, NoPhones, NoBoxes, GeometryGloves, GeometryTicks)
    \/ PublishAcquire
    \/ PublishWrite
    \/ PersonAlertStep({"saved"})
    \/ TrackPhones
    \/ CycleEnd

SpecGeometry == InitGeometry /\ [][NextGeometry]_vars

-----------------------------------------------------------------------------
(* SpecPhone: a live stream showing up to two phones per frame, at frame    *)
(* rates that put the persistence threshold at 1, 3 or 90 frames.           *)

InitPhone == InitWith({"live"}, {"None"})

PhoneFps == {0, 1, 2}

PhoneScenes == {<<>>,
                <<PhoneAt(100, 100)>>,
                <<PhoneAt(149, 100)>>,
                <<PhoneAt(150, 100)>>,
                <<PhoneAt(151, 100)>>,
                <<PhoneAt(130, 140)>>,
                <<PhoneAt(100, 100), PhoneAt(300, 100)>>,
                <<PhoneAt(100, 100), PhoneAt(151, 100)>>}

NextPhone ==
    \/ Run(PhoneFps)
    \/ ReadOK(NoPersons, PhoneScenes, NoBoxes, NoBoxes, {1})
    \/ PublishAcquire
    \/ PublishWrite
    \/ TrackPhones
    \/ PhoneAlertStep({"saved"})
    \/ CycleEnd

SpecPhone == InitPhone /\ [][NextPhone]_vars

-----------------------------------------------------------------------------
(* Properties *)

Count(seq, x) == Cardinality({i \in 1..Len(seq) : seq[i] = x})

\* C1 (SpecRules): when the rule evaluation reaches a violation of kind k for
\* person i at time current_time, _trigger_alert is called iff no alert was
\* raised for (i, k) before or more than 60 s have passed since the last one;
\* when it is called, current_time becomes the last alert time of (i, k), and
\* when it is not, the cooldown map is left as it was.
C1_CooldownGate ==
    [][(pc = "rules" /\ todo # <<>> /\ todo' = Tail(todo)) =>
        LET h == Head(todo)
            prior == last_alert[h.id][h.kind]
            due == prior = -1 \/ current_time - prior > 60
        IN  /\ h.kind \in PersonKinds
            /\ (calls' # <<>>) <=> due
            /\ due => /\ person_violation_tracker'[h.id][h.kind] = current_time
                      /\ last_alert'[h.id][h.kind] = current_time
            /\ ~due => UNCHANGED <<person_violation_tracker, last_alert>>]_vars

\* a 'Without-apron' violation seen again exactly 60 s after its alert
C1_Witness ==
    /\ pc = "rules"
    /\ todo # <<>>
    /\ Head(todo).kind = "Without-apron"
    /\ last_alert[Head(todo).id]["Without-apron"] # -1
    /\ current_time - last_alert[Head(todo).id]["Without-apron"] = 60

\* C2 as stated (SpecPhone): over the whole run the Mobile-Phone alert is
\* triggered at most once for each phone track id.
C2_OncePerId == \A i \in DOMAIN phone_alerts : phone_alerts[i] <= 1

\* C2 amended (SpecPhone): the Mobile-Phone alert is triggered exactly once
\* per track, that is per unbroken run of cycles in which the id is matched:
\* it is triggered in the cycle in which the track's frames first exceed the
\* threshold and never again while the track lasts.
C2_OncePerTrack ==
    /\ [](\A i \in 1..Len(phone_tracker) :
            LET t == phone_tracker[i]
            IN  /\ t.fired <= 1
                /\ t.alerted <=> t.fired = 1
                /\ t.fired = 1 => t.frames > phone_persistence_frames
                /\ (pc = "top" /\ t.frames > phone_persistence_frames)
                       => t.fired = 1)
    /\ [][phone_alerts' # phone_alerts =>
            \E i \in 1..Len(phone_tracker) :
                /\ phone_tracker[i].id = Head(todo).id
                /\ phone_tracker[i].frames = phone_persistence_frames + 1
                /\ phone_alerts' = [phone_alerts EXCEPT ![Head(todo).id] = @ + 1]]_vars

\* a track that alerted once and whose frames kept growing after the alert
C2_Witness ==
    /\ pc = "top"
    /\ \E i \in 1..Len(phone_tracker) :
           /\ phone_tracker[i].fired = 1
           /\ phone_tracker[i].frames > phone_persistence_frames + 2

\* C3 (SpecPhone): when the tracker holds one track seen for one frame and
\* the cycle has one phone detection, the update leaves one track: at less
\* than 50 px from the old center it has the same id, frames = 2 and the new
\* center; at 50 px or more it has a different id and frames = 1.
C3_MergeWithin50 ==
    [][(pc = "rules" /\ pc' = "phones" /\ Len(phone_tracker) = 1
        /\ phone_tracker[1].frames = 1 /\ Len(current_phones) = 1) =>
        LET old == phone_tracker[1]
            box == current_phones[1]
            cx == (box[1] + box[3]) \div 2
            cy == (box[2] + box[4]) \div 2
            dx == cx - old.center[1]
            dy == cy - old.center[2]
        IN  /\ Len(phone_tracker') = 1
            /\ phone_tracker'[1].center = <<cx, cy>>
            /\ IF dx * dx + dy * dy < 50 * 50
               THEN /\ phone_tracker'[1].id = old.id
                    /\ phone_tracker'[1].frames = 2
               ELSE /\ phone_tracker'[1].id # old.id
                    /\ phone_tracker'[1].frames = 1]_vars

\* the second frame's phone, 49 px from where the first frame's could have
\* been, merged into track 1
C3_Witness ==
    /\ pc = "phones"
    /\ frame_count = 2
    /\ current_phones = <<PhoneAt(149, 100)>>
    /\ Len(phone_tracker) = 1
    /\ phone_tracker[1].id = 1
    /\ phone_tracker[1].frames = 2
    /\ phone_tracker[1].center = <<149, 100>>

\* C4 (Spec): every get_frame call returns non-empty bytes: the error
\* placeholder, the 'Connecting...' placeholder or the encoded latest frame.
C4_GetFrameNeverEmpty ==
    \A r \in Readers :
        returned[r] \in {"none", "error_placeholder", "connecting_placeholder", "jpeg"}

WorkerHoldsLock == pc \in {"ph_write", "write"}

LockHolders ==
    (IF WorkerHoldsLock THEN 1 ELSE 0)
    + Cardinality({r \in Readers : rpc[r] = "locked"})

\* C5 (Spec): the lock is held by at most one of the worker and the get_frame
\* callers; latest_frame is written only by the worker while it holds the
\* lock, and a get_frame call reads it only while that caller holds the lock,
\* so never while the worker is writing.
C5_LockDiscipline ==
    /\ [](LockHolders <= 1 /\ (locked <=> LockHolders = 1))
    /\ [][/\ latest_frame' # latest_frame =>
                (WorkerHoldsLock /\ locked /\ \A r \in Readers : rpc[r] = "idle")
          /\ \A r \in Readers :
                (returned'[r] # returned[r] \/ (rpc[r] = "locked" /\ rpc'[r] = "idle"))
                    => (rpc[r] = "locked" /\ locked /\ ~WorkerHoldsLock
                        /\ latest_frame' = latest_frame)]_vars

\* the worker waits to publish a frame while a get_frame caller holds the
\* lock and another one has already returned an earlier frame
C5_Witness ==
    /\ pc = "publish"
    /\ latest_frame # "None"
    /\ \E r \in Readers : rpc[r] = "locked"
    /\ \E r \in Readers : returned[r] = "jpeg"

\* C6 (SpecPipeline): a failed read on a live stream sleeps 5 s, reopens the
\* capture and goes back to the loop test with is_running still true and no
\* error raised; run() returns only when is_running is false; the read after
\* a reconnect, when it succeeds, starts a normal cycle.
C6_ReconnectKeepsRunning ==
    /\ [](pc = "returned" => ~is_running)
    /\ [][/\ reconnects' # reconnects =>
                /\ ~is_file /\ pc = "top" /\ pc' = "top"
                /\ is_running /\ is_running'
                /\ raised' = "none"
                /\ reconnects' = reconnects + 1
                /\ clock' = clock + 5
          /\ (reconnects > 0 /\ frame_count' = frame_count + 1 /\ cycle_fail' = "none")
                => (pc' = "publish" /\ is_running')]_vars

\* three failed reads before the first frame, then a cycle in progress
C6_Witness ==
    /\ reconnects = 3
    /\ frame_count = 1
    /\ pc = "phones"
    /\ is_running
    /\ latest_frame = <<"stream", 1>>

\* C7 (SpecPipeline): a failed read on a file goes back to the loop test
\* without returning, with is_running, the cycle counter, the cooldown map,
\* the phone tracker and what run() set up before the loop all unchanged;
\* run() is never at its start again.
C7_RewindKeepsState ==
    /\ [][pc # "start" => pc' # "start"]_vars
    /\ [][rewinds' # rewinds =>
            /\ is_file /\ pc = "top" /\ pc' = "top"
            /\ is_running /\ is_running'
            /\ raised' = "none"
            /\ UNCHANGED <<frame_count, person_violation_tracker, phone_tracker,
                           phone_persistence_frames, is_file, error_message,
                           last_apron_cap_results, last_gloves_results>>]_vars

\* the file wrapped, and the worker still has cycles counted, a cooldown
\* entry and a phone track
C7_Witness ==
    /\ rewinds >= 1
    /\ is_file
    /\ pc = "top"
    /\ is_running
    /\ frame_count >= 2
    /\ person_violation_tracker # EmptyTracker
    /\ phone_tracker # <<>>

\* C8 (SpecPipeline): after a detector call raised in a cycle the worker is
\* still in its loop and no error has left run().
C8_DetectorFailureTolerated ==
    cycle_fail # "none" => (pc \in LoopPcs /\ raised = "none")

\* C9 (SpecPipeline): a _trigger_alert call sends one notification, then asks
\* the evidence sink once, then enters _save_violation_to_db, once, iff the
\* sink returned a path; nothing is called twice.
C9_AlertPipelineOrder ==
    calls # <<>> =>
        /\ Len(calls) >= 2
        /\ calls[1] = "notify"
        /\ calls[2] = "persist"
        /\ \A c \in SeqToSet(calls) : Count(calls, c) = 1
        /\ media_path <=> Len(calls) > 2
        /\ media_path <=> "SessionLocal" \in SeqToSet(calls)
        /\ "add_commit" \in SeqToSet(calls) => media_path

\* an alert whose evidence was not persisted: notified, no record attempted,
\* and the cycle goes on
C9_Witness ==
    /\ calls = <<"notify", "persist">>
    /\ ~media_path
    /\ pc \in {"rules", "phones"}
    /\ raised = "none"

\* the database write of the last alert failed
DbWriteFailed ==
    /\ media_path
    /\ "SessionLocal" \in SeqToSet(calls)
    /\ ("rollback" \in SeqToSet(calls) \/ "add_commit" \notin SeqToSet(calls))

\* C10 (SpecPipeline): when the database write of an alert fails, no error
\* leaves _trigger_alert: the worker is still in its loop.
C10_DbFailureContained ==
    DbWriteFailed => (raised = "none" /\ pc \in LoopPcs)

-----------------------------------------------------------------------------
\* C11: when model loading failed at construction the error stays set, run()
\* returns at once (no stream opened, no frame read or published, no read
\* failure handled, no alert), and every get_frame call returns the error
\* placeholder, whether or not stop() was called.
C11_FailsClosed ==
    /\ [](error_message # "None" =>
            /\ pc \in {"start", "returned"}
            /\ raised = "none"
            /\ latest_frame = "None"
            /\ frame_count = 0 /\ frame_counter = 0
            /\ reconnects = 0 /\ rewinds = 0
            /\ calls = <<>> /\ cycle_alerts = <<>>
            /\ \A i \in PersonIds, k \in PersonKinds : last_alert[i][k] = -1
            /\ \A r \in Readers : returned[r] \in {"none", "error_placeholder"})
    /\ [][error_message' = error_message]_vars

\* run() has returned on a model error, stop() was called, and a get_frame
\* caller has been answered
C11_Witness ==
    /\ error_message # "None"
    /\ pc = "returned"
    /\ ~is_running
    /\ \E r \in Readers : returned[r] = "error_placeholder"

-----------------------------------------------------------------------------
\* C12: once stop()/shutdown() has cleared is_running it stays cleared (a
\* second call changes nothing), the worker passes no loop test any more: at
\* the top of the placeholder loop and of the main loop, also after a rewind
\* or a reconnect, it can only leave; no further frame is read and no further
\* read failure handled; and the worker, kept running, reaches the end of
\* run().
C12_CooperativeStop ==
    /\ [][~is_running =>
            /\ ~is_running'
            /\ pc = "top" => pc' \in {"top", "returned"}
            /\ pc = "ph_top" => pc' \in {"ph_top", "returned"}
            /\ frame_count' = frame_count
            /\ reconnects' = reconnects
            /\ rewinds' = rewinds]_vars
    /\ (~is_running ~> pc = "returned")

\* stop() came after frames were read and a reconnect, and run() has returned
C12_Witness ==
    /\ ~is_running
    /\ pc = "returned"
    /\ frame_count > 0
    /\ reconnects > 0

-----------------------------------------------------------------------------
\* C13: the apron/cap and glove detectors are called in exactly the cycles
\* whose frame_count is a multiple of FRAME_SKIP_RATE, and their stored
\* results change in no other step; in every other cycle the stored results
\* stay as they are and the rules are evaluated on them: each tracked person
\* gets one violation per stored 'Without-...' box, and No-Gloves iff no
\* stored glove box is inside the person's box.
C13_DetectorSampling ==
    /\ [][(pc = "top" /\ pc' = "publish") =>
            /\ frame_count' = frame_count + 1
            /\ sampled' <=> (frame_count' % FRAME_SKIP_RATE = 0)
            /\ ~sampled' => UNCHANGED <<last_apron_cap_results, last_gloves_results>>
            /\ \A i \in 1..Len(person_results') :
                   LET p == person_results'[i]
                   IN  /\ \A c \in ApronCapViolations :
                              Count(todo', [id |-> p.id, kind |-> c])
                                  = Count(last_apron_cap_results', c)
                       /\ Count(todo', [id |-> p.id, kind |-> "No-Gloves"]) =
                              IF HasGloves(IntBox(p.box),
                                           DetectedGlovesBoxes(last_gloves_results'))
                              THEN 0 ELSE 1]_vars
    /\ [][~(pc = "top" /\ sampled' /\ frame_count' % FRAME_SKIP_RATE = 0) =>
            UNCHANGED <<last_apron_cap_results, last_gloves_results>>]_vars

\* the cycle after a run of the detectors: the stored boxes are still there
\* and the person in view is charged with them
C13_Witness ==
    /\ pc = "publish"
    /\ frame_count = FRAME_SKIP_RATE + 1
    /\ ~sampled
    /\ last_apron_cap_results # <<>>
    /\ last_gloves_results # <<>>
    /\ Count(todo, [id |-> 1, kind |-> "Without-cap"]) = 1
    /\ Count(todo, [id |-> 1, kind |-> "No-Gloves"]) = 0

-----------------------------------------------------------------------------
\* C14: a tracked person is charged with No-Gloves iff no stored glove box of
\* class 'surgical-gloves' has gx1 > px1, gx2 < px2, gy1 > py1 and gy2 < py2,
\* where px1, py1, px2, py2 are the person box's corners as line 320
\* truncates them; a glove box with an edge on an edge of that box, or a box
\* of another class, does not count as gloves.
C14_GloveContainment ==
    [][(pc = "top" /\ pc' = "publish") =>
        \A i \in 1..Len(person_results') :
            LET p == person_results'[i]
                px1 == p.box[1] \div 2
                py1 == p.box[2] \div 2
                px2 == p.box[3] \div 2
                py2 == p.box[4] \div 2
                inside(g) == /\ g.cls = "surgical-gloves"
                             /\ g.box[1] > 2 * px1 /\ g.box[3] < 2 * px2
                             /\ g.box[2] > 2 * py1 /\ g.box[4] < 2 * py2
                present == \E j \in 1..Len(last_gloves_results') :
                               inside(last_gloves_results'[j])
            IN  Count(todo', [id |-> p.id, kind |-> "No-Gloves"]) =
                    IF present THEN 0 ELSE 1]_vars

\* the glove detector has found a glove box on the person box's left edge
\* and a bare hand inside the box: the person is charged with No-Gloves
C14_Witness ==
    /\ pc = "publish"
    /\ sampled
    /\ last_gloves_results = <<GloveOnEdge, BareHandInside>>
    /\ person_results = <<Person(1, 17)>>
    /\ Count(todo, [id |-> 1, kind |-> "No-Gloves"]) = 1

-----------------------------------------------------------------------------
\* C15: the torso crop of a tracked person is rows py1 + 10% .. py1 + 70% of
\* the box height and columns px1 .. px2; the person is charged with
\* Uniform-Violation iff the crop is not empty and fewer than 30% of its
\* pixels are yellow or black: exactly 30% is compliant, and an empty crop
\* is never a violation.
C15_UniformRatio ==
    [][(pc = "top" /\ pc' = "publish") =>
        \A i \in 1..Len(person_results') :
            LET p == person_results'[i]
                px1 == p.box[1] \div 2
                py1 == p.box[2] \div 2
                px2 == p.box[3] \div 2
                py2 == p.box[4] \div 2
                h == py2 - py1
                first == py1 + h \div 10
                last == py1 + (7 * h) \div 10
                rows == IF last > first THEN last - first ELSE 0
                cols == IF px2 > px1 THEN px2 - px1 ELSE 0
                size == rows * cols
                violation == size > 0 /\ 10 * p.compliant < 3 * size
            IN  Count(todo', [id |-> p.id, kind |-> "Uniform-Violation"]) =
                    IF violation THEN 1 ELSE 0]_vars

\* a cycle is through its rules with two persons in view, one of them with
\* exactly 18 of 60 torso pixels compliant: no Uniform-Violation alert
C15_Witness ==
    /\ pc = "rules"
    /\ todo = <<>>
    /\ person_results = <<Person(2, 18), Person(1, 60)>>
    /\ cycle_alerts # <<>>
    /\ \A i \in PersonIds :
           Count(cycle_alerts, [id |-> i, kind |-> "Uniform-Violation"]) = 0

-----------------------------------------------------------------------------
\* C19: within one cycle _trigger_alert is called at most once per (person
\* track id, kind), however many boxes of the same 'Without-...' class the
\* stored results hold: every alert of the cycle has left current_time in
\* the cooldown map, so a later box of the cycle sees 0 seconds elapsed.
C19_OneAlertPerCycle ==
    /\ \A i, j \in 1..Len(cycle_alerts) :
           i # j => cycle_alerts[i] # cycle_alerts[j]
    /\ pc = "rules" =>
           \A i \in 1..Len(cycle_alerts) :
               person_violation_tracker[cycle_alerts[i].id][cycle_alerts[i].kind]
                   = current_time

\* a cycle is through its rules with two Without-apron boxes stored and one
\* Without-apron alert for person 1
C19_Witness ==
    /\ pc = "rules"
    /\ todo = <<>>
    /\ Count(last_apron_cap_results, "Without-apron") = 2
    /\ Count(cycle_alerts, [id |-> 1, kind |-> "Without-apron"]) = 1

-----------------------------------------------------------------------------
\* C20: before the first cycle in which the glove detector runs (cycles
\* 1 .. FRAME_SKIP_RATE - 1) no No-Gloves alert has been triggered and no
\* No-Gloves cooldown entry has been written.
C20_NoGlovesAfterFirstRun ==
    frame_count < FRAME_SKIP_RATE =>
        \A i \in PersonIds :
            /\ last_alert[i]["No-Gloves"] = -1
            /\ person_violation_tracker[i]["No-Gloves"] = 0

-----------------------------------------------------------------------------
\* C16: in the tracker update every detection that is 50 px or more from
\* every track of the previous cycle has a track of its own in the rebuilt
\* tracker, seen for one frame at the detection's center, and no two tracks
\* of the rebuilt tracker have the same id.
C16_UnmatchedGetOwnTrack ==
    [][(pc = "rules" /\ pc' = "phones") =>
        LET c(i) == <<(current_phones[i][1] + current_phones[i][3]) \div 2,
                      (current_phones[i][2] + current_phones[i][4]) \div 2>>
            far(i, k) ==
                LET dx == c(i)[1] - phone_tracker[k].center[1]
                    dy == c(i)[2] - phone_tracker[k].center[2]
                IN  dx * dx + dy * dy >= 50 * 50
            unmatched == {i \in 1..Len(current_phones) :
                             \A k \in 1..Len(phone_tracker) : far(i, k)}
        IN  /\ \A i \in unmatched :
                   \E m \in 1..Len(phone_tracker') :
                       /\ phone_tracker'[m].center = c(i)
                       /\ phone_tracker'[m].frames = 1
            /\ \A m, n \in 1..Len(phone_tracker') :
                   m # n => phone_tracker'[m].id # phone_tracker'[n].id]_vars

\* C17: in the tracker update no track of the previous cycle is matched by
\* more than one detection (a detection is matched to the first track, in
\* the tracker's order, less than 50 px from its center), and a track that
\* no detection is matched to has no entry in the rebuilt tracker.
C17_OneDetectionPerTrack ==
    [][(pc = "rules" /\ pc' = "phones") =>
        LET c(i) == <<(current_phones[i][1] + current_phones[i][3]) \div 2,
                      (current_phones[i][2] + current_phones[i][4]) \div 2>>
            near(i, k) ==
                LET dx == c(i)[1] - phone_tracker[k].center[1]
                    dy == c(i)[2] - phone_tracker[k].center[2]
                IN  dx * dx + dy * dy < 50 * 50
            matched(i, k) == near(i, k) /\ \A l \in 1..(k - 1) : ~near(i, l)
            matches(k) == {i \in 1..Len(current_phones) : matched(i, k)}
        IN  \A k \in 1..Len(phone_tracker) :
                /\ Cardinality(matches(k)) <= 1
                /\ matches(k) = {} =>
                       \A m \in 1..Len(phone_tracker') :
                           phone_tracker'[m].id # phone_tracker[k].id]_vars

\* C18: in the tracker update a single detection less than 50 px from more
\* than one track of the previous cycle is merged into a nearest of them:
\* the rebuilt tracker holds that track's id with frames one higher, the
\* detection's center and the alerted flag as it was.
C18_MergeIntoNearest ==
    [][(pc = "rules" /\ pc' = "phones" /\ Len(current_phones) = 1) =>
        LET c == <<(current_phones[1][1] + current_phones[1][3]) \div 2,
                   (current_phones[1][2] + current_phones[1][4]) \div 2>>
            d2(k) ==
                LET dx == c[1] - phone_tracker[k].center[1]
                    dy == c[2] - phone_tracker[k].center[2]
                IN  dx * dx + dy * dy
            near == {k \in 1..Len(phone_tracker) : d2(k) < 50 * 50}
        IN  Cardinality(near) > 1 =>
                \E k \in near :
                    /\ \A l \in near : d2(k) <= d2(l)
                    /\ Len(phone_tracker') = 1
                    /\ phone_tracker'[1].id = phone_tracker[k].id
                    /\ phone_tracker'[1].frames = phone_tracker[k].frames + 1
                    /\ phone_tracker'[1].center = c
                    /\ phone_tracker'[1].alerted = phone_tracker[k].alerted]_vars

-----------------------------------------------------------------------------
\* C21: an iteration whose read fails, whether it rewinds the file or
\* reconnects the live stream, leaves the cycle counter, the stored
\* apron/cap and glove results, the cooldown map, the phone tracker and the
\* latest published frame as they were, runs no detector and triggers no
\* alert; it happens at the loop test and goes back to it.
C21_FailedReadKeepsState ==
    [][(rewinds' # rewinds \/ reconnects' # reconnects) =>
        /\ pc = "top" /\ pc' = "top"
        /\ rewinds' + reconnects' = rewinds + reconnects + 1
        /\ UNCHANGED <<frame_count, current_time,
                       last_apron_cap_results, last_gloves_results,
                       person_violation_tracker, phone_tracker, latest_frame>>
        /\ UNCHANGED <<sampled, cycle_fail, person_results, current_phones>>
        /\ UNCHANGED <<todo, calls, media_path, cycle_alerts, last_alert,
                       phone_alerts>>]_vars

\* a live stream's read has failed after the detectors had run, a frame was
\* published, a cooldown entry written and a phone tracked
C21_Witness ==
    /\ pc = "top"
    /\ ~is_file
    /\ reconnects >= 1
    /\ frame_count >= FRAME_SKIP_RATE
    /\ latest_frame = <<"stream", frame_count>>
    /\ last_apron_cap_results # <<>>
    /\ person_violation_tracker # EmptyTracker
    /\ phone_tracker # <<>>

=============================================================================
